---- MODULE Spec2Model ----
(***************************************************************************)
(* k210-hal SPI driver (src/src/spi.rs): the driver's calls as a           *)
(* program-counter machine over the controller's registers, interleaved    *)
(* with the controller hardware (transmit/receive FIFO, shift register)    *)
(* and the DMA channel.                                                    *)
(***************************************************************************)
EXTENDS Integers, Sequences, FiniteSets, TLC

VARIABLES
    pc,            \* position of the calling context: "idle", "panicked" or a line label
    op,            \* the call in progress, or the last call made
    arg,           \* its arguments (a record)
    ret,           \* the value the last call returned ("none" while running)
    hz,            \* the Hertz value returned by set_clk_rate
    rx,            \* the word returned by word try_read
    dr_val,        \* the raw word last read from the data register
    slave_select,  \* Spi.slave_select: <<>> is None, <<n>> is Some(n)
    clk_en,        \* sysctl clk_en_peri, this controller's enable bit (spi0_clk_en)
    clk_r,         \* the value of clk_en_peri read by this context's modify
    spi1,          \* the other controller and the context that owns it
    imr, dmacr, dmatdlr, dmardlr, ser, ssienr, ctrlr0, spi_ctrlr0, endian,
    baudr, ctrlr1, \* the controller's registers
    txflr,         \* transmit FIFO level (register TXFLR)
    rxflr,         \* receive FIFO level (register RXFLR)
    busy,          \* the shift register is moving a frame (SR bit 0)
    txoverrun,     \* a word was written to a full transmit FIFO
    dma_dir,       \* direction the DMA channel was last programmed for
    dma_rem,       \* elements the DMA channel has still to move
    fifo_len,      \* slice try_send: the cached free count
    rem,           \* slice try_send: words of tx not yet pushed
    sr_val,        \* the last value read from the status register SR
    wr,            \* registers written by the call so far, in order
    rd             \* registers read by the call so far

regs == <<imr, dmacr, dmatdlr, dmardlr, ser, ssienr, ctrlr0, spi_ctrlr0,
          endian, baudr, ctrlr1>>
hw == <<txflr, rxflr, busy, txoverrun, dma_dir, dma_rem>>
locals == <<fifo_len, rem, sr_val>>
call == <<pc, op, arg, ret, hz, rx, dr_val, wr, rd>>
gate == <<clk_en, clk_r, spi1>>
vars == <<pc, op, arg, ret, hz, rx, dr_val, slave_select, clk_en, clk_r, spi1, imr, dmacr, dmatdlr,
          dmardlr, ser, ssienr, ctrlr0, spi_ctrlr0, endian, baudr, ctrlr1,
          txflr, rxflr, busy, txoverrun, dma_dir, dma_rem, fifo_len, rem,
          sr_val, wr, rd>>

(***************************************************************************)
(* Bounds of the model and constants of the program.                       *)
(***************************************************************************)
MaxSlave == 4          \* set_slave_select is called with Some(0..MaxSlave)
MaxTxLen == 2          \* longest slice handed to a transfer under Spec
MaxBurst == 34         \* longest slice handed to slice try_send under SpecFifo
MaxFreq == 12          \* small frequencies 0..MaxFreq tried by set_clk_rate under SpecClk
MaxRx == 1             \* received words the model lets wait in the receive FIFO
FifoDepth == 32        \* transmit FIFO entries
BaudMin == 2
BaudMax == 65534
SrIdleMask == 5        \* 0x05: SR bits BUSY and TFE
SrIdle == 4            \* 0x04: TFE set, BUSY clear
RawWords == {0, 255, 256, 65535, 65536, 2147483647}   \* raw 32-bit words the receive FIFO may hold

None == <<>>
Some(n) == <<n>>
Min(a, b) == IF a < b THEN a ELSE b
Max(a, b) == IF a > b THEN a ELSE b

RECURSIVE BitAnd(_, _)
BitAnd(a, b) ==
    IF a = 0 \/ b = 0 THEN 0
    ELSE (IF a % 2 = 1 /\ b % 2 = 1 THEN 1 ELSE 0) + 2 * BitAnd(a \div 2, b \div 2)

RECURSIVE Shl1(_)
Shl1(n) == IF n = 0 THEN 1 ELSE 2 * Shl1(n - 1)

\* The status register as the hardware presents it: BUSY, TFNF, TFE, RFNE.
SR == (IF busy THEN 1 ELSE 0) + (IF txflr < FifoDepth THEN 2 ELSE 0)
      + (IF txflr = 0 THEN 4 ELSE 0) + (IF rxflr > 0 THEN 8 ELSE 0)

Ctrlr0Reset == [work_mode |-> "MODE0", tmod |-> "TRANS_RECV",
                frame_format |-> "STANDARD", data_length |-> 0]
SpiCtrlr0Reset == [aitm |-> "STANDARD", addr_length |-> 0, inst_length |-> 0,
                   wait_cycles |-> 0]

\* SpiExt::constrain: slave_select None; the registers hold their reset values.
Init ==
    /\ pc = "idle" /\ op = "constrain" /\ arg = [n |-> 0] /\ ret = "none"
    /\ hz = 0 /\ rx = 0 /\ dr_val = 0
    /\ slave_select = None
    /\ clk_en = FALSE
    /\ clk_r = [spi0 |-> FALSE, spi1 |-> FALSE]
    /\ spi1 = [pc |-> "idle", ret |-> "none", spi_clk |-> 0, clk_en |-> FALSE,
               r |-> [spi0 |-> FALSE, spi1 |-> FALSE], baudr |-> 0]
    /\ imr = 0 /\ dmacr = 0 /\ dmatdlr = 0 /\ dmardlr = 0 /\ ser = 0
    /\ ssienr = 0 /\ ctrlr0 = Ctrlr0Reset /\ spi_ctrlr0 = SpiCtrlr0Reset
    /\ endian = 0 /\ baudr = 0 /\ ctrlr1 = 0
    /\ txflr = 0 /\ rxflr = 0 /\ busy = FALSE /\ txoverrun = FALSE
    /\ dma_dir = "none" /\ dma_rem = 0
    /\ fifo_len = 0 /\ rem = 0 /\ sr_val = 0
    /\ wr = <<>> /\ rd = {}

(***************************************************************************)
(* Building blocks of the driver's steps.                                  *)
(***************************************************************************)
\* A call is entered from the idle position; its locals start afresh.
Enter(o, a) ==
    /\ pc = "idle"
    /\ op' = o /\ arg' = a /\ rx' = 0 /\ dr_val' = 0

\* The call returns r without having touched a register or its locals.
Return(r, reads) ==
    /\ pc' = "idle" /\ ret' = r /\ hz' = 0 /\ wr' = <<>> /\ rd' = reads
    /\ UNCHANGED <<slave_select, gate, regs, hw>>
    /\ fifo_len' = 0 /\ rem' = 0 /\ sr_val' = 0

\* The call passes its checks and goes on to its first register access.
Begin(to, reads, n) ==
    /\ pc' = to /\ ret' = "none" /\ hz' = 0 /\ wr' = <<>> /\ rd' = reads
    /\ UNCHANGED <<slave_select, gate, regs, hw>>
    /\ fifo_len' = 0 /\ rem' = n /\ sr_val' = 0

\* One step of a running call.
Step(from, to) ==
    /\ pc = from /\ pc' = to
    /\ UNCHANGED <<op, arg, ret, hz, slave_select, gate>>

\* The last step of a call: it returns Ok.
Done(from) ==
    /\ pc = from /\ pc' = "idle" /\ ret' = "Ok"
    /\ UNCHANGED <<op, arg, hz, slave_select, gate>>

\* A CPU write to the data register pushes one word into the transmit FIFO.
WriteDr ==
    /\ txflr' = Min(txflr + 1, FifoDepth)
    /\ txoverrun' = (txoverrun \/ txflr = FifoDepth)
    /\ wr' = Append(wr, "dr")

\* ssienr.write(0): the controller is disabled, which empties both FIFOs.
WriteSsienr0 ==
    /\ ssienr' = 0 /\ txflr' = 0 /\ rxflr' = 0 /\ busy' = FALSE
    /\ wr' = Append(wr, "ssienr")

(***************************************************************************)
(* set_slave_select                                                        *)
(***************************************************************************)
\* The select line driven as soon as it is chosen.
set_slave_select_Driving(ss) ==
    /\ Enter("set_slave_select", [ss |-> ss])
    /\ slave_select' = ss
    /\ ser' = IF ss = None THEN 0 ELSE Shl1(ss[1])
    /\ pc' = "idle" /\ ret' = "Ok" /\ hz' = 0 /\ wr' = <<"ser">> /\ rd' = {}
    /\ UNCHANGED <<gate, imr, dmacr, dmatdlr, dmardlr, ssienr, ctrlr0,
                   spi_ctrlr0, endian, baudr, ctrlr1, hw, locals>>

set_slave_select(ss) ==
    /\ Enter("set_slave_select", [ss |-> ss])
    /\ slave_select' = ss
    /\ pc' = "idle" /\ ret' = "Ok" /\ hz' = 0 /\ wr' = <<>> /\ rd' = {}
    /\ UNCHANGED <<gate, regs, hw, locals>>

(***************************************************************************)
(* FullDuplex<u8/u16/u32>::try_send                                        *)
(***************************************************************************)
\* try_send with the clock-gate check made before the chip-select check.
try_send_ClockFirst(w) ==
    /\ Enter("try_send", [w |-> w])
    /\ IF ~clk_en THEN Return("NoClockRateSpecified", {"clk_en_peri"})
       ELSE IF slave_select = None THEN Return("NoSlaveSelect", {"clk_en_peri"})
       ELSE Begin("send_ser", {"clk_en_peri"}, 0)

try_send(w) ==
    /\ Enter("try_send", [w |-> w])
    /\ IF slave_select = None THEN Return("NoSlaveSelect", {})
       ELSE IF ~clk_en THEN Return("NoClockRateSpecified", {"clk_en_peri"})
       ELSE Begin("send_ser", {"clk_en_peri"}, 0)

try_send_ser ==
    /\ Step("send_ser", "send_en")
    /\ ser' = Shl1(slave_select[1]) /\ wr' = Append(wr, "ser")
    /\ UNCHANGED <<rx, dr_val, rd, imr, dmacr, dmatdlr, dmardlr, ssienr, ctrlr0,
                   spi_ctrlr0, endian, baudr, ctrlr1, hw, locals>>

\* The frame size set from the word type when the controller is enabled.
try_send_en_Resize ==
    /\ Step("send_en", "send_wait")
    /\ ssienr' = 1 /\ wr' = Append(wr, "ssienr")
    /\ ctrlr0' = [ctrlr0 EXCEPT !.data_length = arg.w - 1]
    /\ UNCHANGED <<rx, dr_val, rd, imr, dmacr, dmatdlr, dmardlr, ser,
                   spi_ctrlr0, endian, baudr, ctrlr1, hw, locals>>

try_send_en ==
    /\ Step("send_en", "send_wait")
    /\ ssienr' = 1 /\ wr' = Append(wr, "ssienr")
    /\ UNCHANGED <<rx, dr_val, rd, imr, dmacr, dmatdlr, dmardlr, ser, ctrlr0,
                   spi_ctrlr0, endian, baudr, ctrlr1, hw, locals>>

\* while 32 - txflr == 0 {}
try_send_wait ==
    /\ pc = "send_wait"
    /\ pc' = IF FifoDepth - txflr = 0 THEN "send_wait" ELSE "send_dr"
    /\ rd' = rd \cup {"txflr"}
    /\ UNCHANGED <<op, arg, ret, hz, rx, dr_val, wr, slave_select, gate, regs, hw, locals>>

try_send_dr ==
    /\ Step("send_dr", "send_poll")
    /\ WriteDr
    /\ UNCHANGED <<rx, dr_val, rd, regs, rxflr, busy, dma_dir, dma_rem, locals>>

\* try_send reading the status register once and going on whatever it shows.
try_send_poll_Once ==
    /\ pc = "send_poll"
    /\ sr_val' = SR
    /\ pc' = "send_ser0"
    /\ rd' = rd \cup {"sr"}
    /\ UNCHANGED <<op, arg, ret, hz, rx, dr_val, wr, slave_select, gate, regs, hw,
                   fifo_len, rem>>

\* while (sr & 0x05) != 0x04 {}
try_send_poll ==
    /\ pc = "send_poll"
    /\ sr_val' = SR
    /\ pc' = IF BitAnd(SR, SrIdleMask) # SrIdle THEN "send_poll" ELSE "send_ser0"
    /\ rd' = rd \cup {"sr"}
    /\ UNCHANGED <<op, arg, ret, hz, rx, dr_val, wr, slave_select, gate, regs, hw,
                   fifo_len, rem>>

try_send_ser0 ==
    /\ Step("send_ser0", "send_en0")
    /\ ser' = 0 /\ wr' = Append(wr, "ser")
    /\ UNCHANGED <<rx, dr_val, rd, imr, dmacr, dmatdlr, dmardlr, ssienr, ctrlr0,
                   spi_ctrlr0, endian, baudr, ctrlr1, hw, locals>>

\* try_send dropping the stored chip-select when it returns.
try_send_en0_Deselect ==
    /\ pc = "send_en0" /\ pc' = "idle" /\ ret' = "Ok"
    /\ slave_select' = None
    /\ WriteSsienr0
    /\ UNCHANGED <<op, arg, hz, gate, rx, dr_val, rd, imr, dmacr, dmatdlr, dmardlr,
                   ser, ctrlr0, spi_ctrlr0, endian, baudr, ctrlr1, txoverrun,
                   dma_dir, dma_rem, locals>>

try_send_en0 ==
    /\ Done("send_en0")
    /\ WriteSsienr0
    /\ UNCHANGED <<rx, dr_val, rd, imr, dmacr, dmatdlr, dmardlr, ser, ctrlr0,
                   spi_ctrlr0, endian, baudr, ctrlr1, txoverrun, dma_dir,
                   dma_rem, locals>>

(***************************************************************************)
(* FullDuplex<u8/u16/u32>::try_read                                        *)
(***************************************************************************)
\* Narrowing that keeps the low w bits.
Saturate_Truncate(v, w) == IF w = 32 THEN v ELSE v % Shl1(w)

\* .max(0).min(<$t>::MAX as u32) as $t; for u32 the bound is u32::MAX itself.
Saturate(v, w) == IF w = 32 THEN v ELSE Min(Max(v, 0), Shl1(w) - 1)

try_read(w) ==
    /\ Enter("try_read", [w |-> w])
    /\ IF slave_select = None THEN Return("NoSlaveSelect", {})
       ELSE IF ~clk_en THEN Return("NoClockRateSpecified", {"clk_en_peri"})
       ELSE Begin("read_ctrlr1", {"clk_en_peri"}, 0)

try_read_ctrlr1 ==
    /\ Step("read_ctrlr1", "read_en")
    /\ ctrlr1' = 0 /\ wr' = Append(wr, "ctrlr1")
    /\ UNCHANGED <<rx, dr_val, rd, imr, dmacr, dmatdlr, dmardlr, ser, ssienr, ctrlr0,
                   spi_ctrlr0, endian, baudr, hw, locals>>

try_read_en ==
    /\ Step("read_en", "read_dr")
    /\ ssienr' = 1 /\ wr' = Append(wr, "ssienr")
    /\ UNCHANGED <<rx, dr_val, rd, imr, dmacr, dmatdlr, dmardlr, ser, ctrlr0,
                   spi_ctrlr0, endian, baudr, ctrlr1, hw, locals>>

\* dr[0].write(0xffffffff)
try_read_dr ==
    /\ Step("read_dr", "read_ser")
    /\ WriteDr
    /\ UNCHANGED <<rx, dr_val, rd, regs, rxflr, busy, dma_dir, dma_rem, locals>>

try_read_ser ==
    /\ Step("read_ser", "read_wait")
    /\ ser' = Shl1(slave_select[1]) /\ wr' = Append(wr, "ser")
    /\ UNCHANGED <<rx, dr_val, rd, imr, dmacr, dmatdlr, dmardlr, ssienr, ctrlr0,
                   spi_ctrlr0, endian, baudr, ctrlr1, hw, locals>>

\* The receive level read once, with no wait for a word.
try_read_wait_NoPoll ==
    /\ pc = "read_wait"
    /\ pc' = "read_pop"
    /\ rd' = rd \cup {"rxflr"}
    /\ UNCHANGED <<op, arg, ret, hz, rx, dr_val, wr, slave_select, gate, regs, hw, locals>>

\* while rxflr == 0 {}
try_read_wait ==
    /\ pc = "read_wait"
    /\ pc' = IF rxflr = 0 THEN "read_wait" ELSE "read_pop"
    /\ rd' = rd \cup {"rxflr"}
    /\ UNCHANGED <<op, arg, ret, hz, rx, dr_val, wr, slave_select, gate, regs, hw, locals>>

\* rx = dr[0].read(), saturated to the word type
try_read_pop ==
    /\ pc = "read_pop" /\ pc' = "read_ser0"
    /\ \E v \in RawWords : dr_val' = v /\ rx' = Saturate(v, arg.w)
    /\ rxflr' = Max(rxflr - 1, 0)
    /\ rd' = rd \cup {"dr"}
    /\ UNCHANGED <<op, arg, ret, hz, wr, slave_select, gate, regs, txflr,
                   busy, txoverrun, dma_dir, dma_rem, locals>>

try_read_ser0 ==
    /\ Step("read_ser0", "read_en0")
    /\ ser' = 0 /\ wr' = Append(wr, "ser")
    /\ UNCHANGED <<rx, dr_val, rd, imr, dmacr, dmatdlr, dmardlr, ssienr, ctrlr0,
                   spi_ctrlr0, endian, baudr, ctrlr1, hw, locals>>

try_read_en0 ==
    /\ Done("read_en0")
    /\ WriteSsienr0
    /\ UNCHANGED <<rx, dr_val, rd, imr, dmacr, dmatdlr, dmardlr, ser, ctrlr0,
                   spi_ctrlr0, endian, baudr, ctrlr1, txoverrun, dma_dir,
                   dma_rem, locals>>

(***************************************************************************)
(* FullDuplex<&[X]>::try_read and try_send                                 *)
(***************************************************************************)
\* Slice try_read making the chip-select check of the other transfers first.
slice_try_read_Checked ==
    /\ Enter("slice_try_read", [n |-> 0])
    /\ IF slave_select = None THEN Return("NoSlaveSelect", {})
       ELSE Return("WillCauseMemoryError", {})

slice_try_read ==
    /\ Enter("slice_try_read", [n |-> 0])
    /\ Return("WillCauseMemoryError", {})

slice_try_send(n) ==
    /\ Enter("slice_try_send", [len |-> n])
    /\ IF slave_select = None THEN Return("NoSlaveSelect", {})
       ELSE Begin("slice_ser", {}, n)

slice_ser ==
    /\ Step("slice_ser", "slice_en")
    /\ ser' = Shl1(slave_select[1]) /\ wr' = Append(wr, "ser")
    /\ UNCHANGED <<rx, dr_val, rd, imr, dmacr, dmatdlr, dmardlr, ssienr, ctrlr0,
                   spi_ctrlr0, endian, baudr, ctrlr1, hw, locals>>

\* ssienr.write(1); let mut fifo_len = 0; then the head of the for loop
slice_en ==
    /\ pc = "slice_en" /\ pc' = IF rem = 0 THEN "slice_poll" ELSE "slice_loop"
    /\ ssienr' = 1 /\ wr' = Append(wr, "ssienr")
    /\ UNCHANGED <<op, arg, ret, hz, rx, dr_val, rd, slave_select, gate, imr, dmacr,
                   dmatdlr, dmardlr, ser, ctrlr0, spi_ctrlr0, endian, baudr,
                   ctrlr1, hw, locals>>

\* A free count that takes the transmit FIFO to be empty.
FreeCount_Empty(level) == FifoDepth

\* The free count the driver caches from one read of TXFLR.
FreeCount(level) == FifoDepth - level

\* while fifo_len == 0 { fifo_len = 32 - txflr }
slice_refill ==
    /\ pc = "slice_loop" /\ fifo_len = 0
    /\ fifo_len' = FreeCount(txflr)
    /\ rd' = rd \cup {"txflr"}
    /\ UNCHANGED <<pc, op, arg, ret, hz, rx, dr_val, wr, slave_select, gate, regs,
                   hw, rem, sr_val>>

\* dr[0].write(val); fifo_len -= 1; then the head of the for loop
slice_push ==
    /\ pc = "slice_loop" /\ fifo_len # 0
    /\ WriteDr
    /\ fifo_len' = fifo_len - 1
    /\ rem' = rem - 1
    /\ pc' = IF rem - 1 = 0 THEN "slice_poll" ELSE "slice_loop"
    /\ UNCHANGED <<op, arg, ret, hz, rx, dr_val, rd, slave_select, gate, regs,
                   rxflr, busy, dma_dir, dma_rem, sr_val>>

slice_poll ==
    /\ pc = "slice_poll"
    /\ sr_val' = SR
    /\ pc' = IF BitAnd(SR, SrIdleMask) # SrIdle THEN "slice_poll" ELSE "slice_ser0"
    /\ rd' = rd \cup {"sr"}
    /\ UNCHANGED <<op, arg, ret, hz, rx, dr_val, wr, slave_select, gate, regs, hw,
                   fifo_len, rem>>

slice_ser0 ==
    /\ Step("slice_ser0", "slice_en0")
    /\ ser' = 0 /\ wr' = Append(wr, "ser")
    /\ UNCHANGED <<rx, dr_val, rd, imr, dmacr, dmatdlr, dmardlr, ssienr, ctrlr0,
                   spi_ctrlr0, endian, baudr, ctrlr1, hw, locals>>

slice_en0 ==
    /\ Done("slice_en0")
    /\ WriteSsienr0
    /\ UNCHANGED <<rx, dr_val, rd, imr, dmacr, dmatdlr, dmardlr, ser, ctrlr0,
                   spi_ctrlr0, endian, baudr, ctrlr1, txoverrun, dma_dir,
                   dma_rem, locals>>

(***************************************************************************)
(* Spi::send_data_dma                                                      *)
(***************************************************************************)
send_data_dma(n) ==
    /\ Enter("send_data_dma", [len |-> n])
    /\ IF slave_select = None THEN Return("NoSlaveSelect", {})
       ELSE Begin("sdma_dmacr", {}, 0)

send_dma_dmacr ==
    /\ Step("sdma_dmacr", "sdma_en")
    /\ dmacr' = 2 /\ wr' = Append(wr, "dmacr")
    /\ UNCHANGED <<rx, dr_val, rd, imr, dmatdlr, dmardlr, ser, ssienr, ctrlr0,
                   spi_ctrlr0, endian, baudr, ctrlr1, hw, locals>>

send_dma_en ==
    /\ Step("sdma_en", "sdma_setup")
    /\ ssienr' = 1 /\ wr' = Append(wr, "ssienr")
    /\ UNCHANGED <<rx, dr_val, rd, imr, dmacr, dmatdlr, dmardlr, ser, ctrlr0,
                   spi_ctrlr0, endian, baudr, ctrlr1, hw, locals>>

\* sysctl::set_dma_sel(channel, SSIx_TX_REQ); dmac.set_single_mode(.., tx.len())
send_dma_setup ==
    /\ Step("sdma_setup", "sdma_ser")
    /\ dma_dir' = "tx" /\ dma_rem' = arg.len
    /\ wr' = wr \o <<"dma_sel", "dmac">>
    /\ UNCHANGED <<rx, dr_val, rd, regs, txflr, rxflr, busy, txoverrun, locals>>

send_dma_ser ==
    /\ Step("sdma_ser", "sdma_wait")
    /\ ser' = Shl1(slave_select[1]) /\ wr' = Append(wr, "ser")
    /\ UNCHANGED <<rx, dr_val, rd, imr, dmacr, dmatdlr, dmardlr, ssienr, ctrlr0,
                   spi_ctrlr0, endian, baudr, ctrlr1, hw, locals>>

\* dmac.wait_done(channel)
send_dma_wait ==
    /\ pc = "sdma_wait"
    /\ pc' = IF dma_rem # 0 THEN "sdma_wait" ELSE "sdma_poll"
    /\ UNCHANGED <<op, arg, ret, hz, rx, dr_val, wr, rd, slave_select, gate, regs,
                   hw, locals>>

\* The status register compared with 0x04 without the 0x05 mask.
send_dma_poll_NoMask ==
    /\ pc = "sdma_poll"
    /\ sr_val' = SR
    /\ pc' = IF SR # SrIdle THEN "sdma_poll" ELSE "sdma_ser0"
    /\ rd' = rd \cup {"sr"}
    /\ UNCHANGED <<op, arg, ret, hz, rx, dr_val, wr, slave_select, gate, regs, hw,
                   fifo_len, rem>>

send_dma_poll ==
    /\ pc = "sdma_poll"
    /\ sr_val' = SR
    /\ pc' = IF BitAnd(SR, SrIdleMask) # SrIdle THEN "sdma_poll" ELSE "sdma_ser0"
    /\ rd' = rd \cup {"sr"}
    /\ UNCHANGED <<op, arg, ret, hz, rx, dr_val, wr, slave_select, gate, regs, hw,
                   fifo_len, rem>>

\* send_data_dma without its ser.write(0).
send_dma_ser0_Skipped ==
    /\ Step("sdma_ser0", "sdma_en0")
    /\ UNCHANGED <<rx, dr_val, rd, wr, regs, hw, locals>>

send_dma_ser0 ==
    /\ Step("sdma_ser0", "sdma_en0")
    /\ ser' = 0 /\ wr' = Append(wr, "ser")
    /\ UNCHANGED <<rx, dr_val, rd, imr, dmacr, dmatdlr, dmardlr, ssienr, ctrlr0,
                   spi_ctrlr0, endian, baudr, ctrlr1, hw, locals>>

send_dma_en0 ==
    /\ Done("sdma_en0")
    /\ WriteSsienr0
    /\ UNCHANGED <<rx, dr_val, rd, imr, dmacr, dmatdlr, dmardlr, ser, ctrlr0,
                   spi_ctrlr0, endian, baudr, ctrlr1, txoverrun, dma_dir,
                   dma_rem, locals>>

(***************************************************************************)
(* Spi::recv_data_dma                                                      *)
(***************************************************************************)
recv_data_dma(n) ==
    /\ Enter("recv_data_dma", [len |-> n])
    /\ IF n = 0 THEN Return("Ok", {})
       ELSE IF slave_select = None THEN Return("NoSlaveSelect", {})
       ELSE IF ~clk_en THEN Return("NoClockRateSpecified", {"clk_en_peri"})
       ELSE Begin("rdma_ctrlr1", {"clk_en_peri"}, 0)

recv_dma_ctrlr1 ==
    /\ Step("rdma_ctrlr1", "rdma_en")
    /\ ctrlr1' = arg.len - 1 /\ wr' = Append(wr, "ctrlr1")
    /\ UNCHANGED <<rx, dr_val, rd, imr, dmacr, dmatdlr, dmardlr, ser, ssienr, ctrlr0,
                   spi_ctrlr0, endian, baudr, hw, locals>>

recv_dma_en ==
    /\ Step("rdma_en", "rdma_dmacr")
    /\ ssienr' = 1 /\ wr' = Append(wr, "ssienr")
    /\ UNCHANGED <<rx, dr_val, rd, imr, dmacr, dmatdlr, dmardlr, ser, ctrlr0,
                   spi_ctrlr0, endian, baudr, ctrlr1, hw, locals>>

\* recv_data_dma enabling the receive DMA request alone.
recv_dma_dmacr_RxOnly ==
    /\ Step("rdma_dmacr", "rdma_setup")
    /\ dmacr' = 1 /\ wr' = Append(wr, "dmacr")
    /\ UNCHANGED <<rx, dr_val, rd, imr, dmatdlr, dmardlr, ser, ssienr, ctrlr0,
                   spi_ctrlr0, endian, baudr, ctrlr1, hw, locals>>

recv_dma_dmacr ==
    /\ Step("rdma_dmacr", "rdma_setup")
    /\ dmacr' = 3 /\ wr' = Append(wr, "dmacr")
    /\ UNCHANGED <<rx, dr_val, rd, imr, dmatdlr, dmardlr, ser, ssienr, ctrlr0,
                   spi_ctrlr0, endian, baudr, ctrlr1, hw, locals>>

\* sysctl::set_dma_sel(channel, SSIx_RX_REQ); dmac.set_single_mode(.., rx.len())
recv_dma_setup ==
    /\ Step("rdma_setup", "rdma_dr")
    /\ dma_dir' = "rx" /\ dma_rem' = arg.len
    /\ wr' = wr \o <<"dma_sel", "dmac">>
    /\ UNCHANGED <<rx, dr_val, rd, regs, txflr, rxflr, busy, txoverrun, locals>>

\* dr[0].write(0xffffffff)
recv_dma_dr ==
    /\ Step("rdma_dr", "rdma_ser")
    /\ WriteDr
    /\ UNCHANGED <<rx, dr_val, rd, regs, rxflr, busy, dma_dir, dma_rem, locals>>

recv_dma_ser ==
    /\ Step("rdma_ser", "rdma_wait")
    /\ ser' = Shl1(slave_select[1]) /\ wr' = Append(wr, "ser")
    /\ UNCHANGED <<rx, dr_val, rd, imr, dmacr, dmatdlr, dmardlr, ssienr, ctrlr0,
                   spi_ctrlr0, endian, baudr, ctrlr1, hw, locals>>

\* dmac.wait_done(channel)
recv_dma_wait ==
    /\ pc = "rdma_wait"
    /\ pc' = IF dma_rem # 0 THEN "rdma_wait" ELSE "rdma_ser0"
    /\ UNCHANGED <<op, arg, ret, hz, rx, dr_val, wr, rd, slave_select, gate, regs,
                   hw, locals>>

recv_dma_ser0 ==
    /\ Step("rdma_ser0", "rdma_en0")
    /\ ser' = 0 /\ wr' = Append(wr, "ser")
    /\ UNCHANGED <<rx, dr_val, rd, imr, dmacr, dmatdlr, dmardlr, ssienr, ctrlr0,
                   spi_ctrlr0, endian, baudr, ctrlr1, hw, locals>>

recv_dma_en0 ==
    /\ Done("rdma_en0")
    /\ WriteSsienr0
    /\ UNCHANGED <<rx, dr_val, rd, imr, dmacr, dmatdlr, dmardlr, ser, ctrlr0,
                   spi_ctrlr0, endian, baudr, ctrlr1, txoverrun, dma_dir,
                   dma_rem, locals>>

(***************************************************************************)
(* Spi::set_clk_rate                                                       *)
(***************************************************************************)
\* A divisor clamped from below at 1.
Baudrate_Floor1(freq_in, spi_clk) == Min(Max(freq_in \div spi_clk, 1), BaudMax)

\* A divisor rounded up.
Baudrate_RoundUp(freq_in, spi_clk) ==
    Min(Max((freq_in \div spi_clk) + 1, BaudMin), BaudMax)

\* freq_in / spi_clk, then .max(2).min(65534)
Baudrate(freq_in, spi_clk) == Min(Max(freq_in \div spi_clk, BaudMin), BaudMax)

\* The clock gate bit is set first; a zero spi_clk then panics on the division.
set_clk_rate(freq_in, spi_clk) ==
    /\ Enter("set_clk_rate", [freq_in |-> freq_in, spi_clk |-> spi_clk])
    /\ clk_en' = TRUE
    /\ rd' = {"clk_en_peri"}
    /\ IF spi_clk = 0
       THEN /\ pc' = "panicked" /\ ret' = "panic" /\ hz' = 0
            /\ wr' = <<"clk_en_peri">>
            /\ UNCHANGED baudr
       ELSE /\ pc' = "idle" /\ ret' = "Ok"
            /\ baudr' = Baudrate(freq_in, spi_clk)
            /\ hz' = freq_in \div Baudrate(freq_in, spi_clk)
            /\ wr' = <<"clk_en_peri", "baudr">>
    /\ UNCHANGED <<clk_r, spi1>>
    /\ UNCHANGED <<slave_select, imr, dmacr, dmatdlr, dmardlr, ser, ssienr,
                   ctrlr0, spi_ctrlr0, endian, ctrlr1, hw, locals>>

(***************************************************************************)
(* Spi::set_clk_rate on SPI0 and on SPI1 from two contexts.  The call is   *)
(* taken apart into the register accesses it makes: clk_en_peri().modify   *)
(* reads the register shared by both controllers, sets its own bit in the  *)
(* value read and writes the whole value back.                             *)
(***************************************************************************)
GateRates == {1000000, 10000000, 100000000}   \* spi_clk values requested
GateFreqIn == 390000000                        \* clocks.pll0()

\* SPI0: the call is entered.
set_clk_rate_enter(spi_clk) ==
    /\ Enter("set_clk_rate", [freq_in |-> GateFreqIn, spi_clk |-> spi_clk])
    /\ pc' = "clk_read" /\ ret' = "none" /\ hz' = 0 /\ wr' = <<>> /\ rd' = {}
    /\ UNCHANGED <<slave_select, gate, regs, hw, locals>>

\* SPI0: modify reads clk_en_peri.
clk_en_peri_read ==
    /\ Step("clk_read", "clk_write")
    /\ clk_r' = [spi0 |-> clk_en, spi1 |-> spi1.clk_en]
    /\ rd' = rd \cup {"clk_en_peri"}
    /\ UNCHANGED <<spi1, rx, dr_val, wr, regs, hw, locals>>

\* SPI0: modify writes the value read with spi0_clk_en set.
clk_en_peri_write ==
    /\ pc = "clk_write" /\ pc' = "clk_baudr"
    /\ clk_en' = TRUE
    /\ spi1' = [spi1 EXCEPT !.clk_en = clk_r.spi1]
    /\ wr' = Append(wr, "clk_en_peri")
    /\ UNCHANGED <<op, arg, ret, hz, slave_select, clk_r, rx, dr_val, rd, regs,
                   hw, locals>>

\* SPI0: the divisor is written and the call returns.
set_clk_rate_baudr ==
    /\ pc = "clk_baudr" /\ pc' = "idle" /\ ret' = "Ok"
    /\ baudr' = Baudrate(arg.freq_in, arg.spi_clk)
    /\ hz' = arg.freq_in \div Baudrate(arg.freq_in, arg.spi_clk)
    /\ wr' = Append(wr, "baudr")
    /\ UNCHANGED <<op, arg, rx, dr_val, rd, slave_select, gate, imr, dmacr,
                   dmatdlr, dmardlr, ser, ssienr, ctrlr0, spi_ctrlr0, endian,
                   ctrlr1, hw, locals>>

\* SPI1: the call is entered.
spi1_set_clk_rate_enter(spi_clk) ==
    /\ spi1.pc = "idle"
    /\ spi1' = [spi1 EXCEPT !.pc = "clk_read", !.ret = "none",
                            !.spi_clk = spi_clk]
    /\ UNCHANGED <<call, slave_select, clk_en, clk_r, regs, hw, locals>>

\* SPI1: modify reads clk_en_peri.
spi1_clk_en_peri_read ==
    /\ spi1.pc = "clk_read"
    /\ spi1' = [spi1 EXCEPT !.pc = "clk_write",
                            !.r = [spi0 |-> clk_en, spi1 |-> spi1.clk_en]]
    /\ UNCHANGED <<call, slave_select, clk_en, clk_r, regs, hw, locals>>

\* SPI1: modify writes the value read with spi1_clk_en set.
spi1_clk_en_peri_write ==
    /\ spi1.pc = "clk_write"
    /\ clk_en' = spi1.r.spi0
    /\ spi1' = [spi1 EXCEPT !.pc = "clk_baudr", !.clk_en = TRUE]
    /\ UNCHANGED <<call, slave_select, clk_r, regs, hw, locals>>

\* SPI1: the divisor is written and the call returns.
spi1_set_clk_rate_baudr ==
    /\ spi1.pc = "clk_baudr"
    /\ spi1' = [spi1 EXCEPT !.pc = "idle", !.ret = "Ok",
                            !.baudr = Baudrate(GateFreqIn, spi1.spi_clk)]
    /\ UNCHANGED <<call, slave_select, clk_en, clk_r, regs, hw, locals>>

(***************************************************************************)
(* Spi::configure                                                          *)
(***************************************************************************)
\* match instruction_length { 0 => 0, 4 => 1, 8 => 2, 16 => 3, _ => panic }
inst_l(instruction_length) ==
    CASE instruction_length = 0 -> 0
      [] instruction_length = 4 -> 1
      [] instruction_length = 8 -> 2
      [] instruction_length = 16 -> 3
      [] OTHER -> -1

\* The three assertions and the match arm: TRUE when none of them panics.
ConfigureAccepts(a) ==
    /\ a.data_length >= 4 /\ a.data_length <= 32
    /\ a.wait_cycles < 32
    /\ inst_l(a.instruction_length) # -1
    /\ a.address_length % 4 = 0 /\ a.address_length <= 60

\* configure leaving the DMA enable register as it finds it.
ConfigureWrites_KeepDmacr(a) ==
    /\ imr' = 0
    /\ dmacr' = dmacr
    /\ dmatdlr' = 16
    /\ dmardlr' = 0
    /\ ser' = 0
    /\ ssienr' = 0 /\ txflr' = 0 /\ rxflr' = 0 /\ busy' = FALSE
    /\ ctrlr0' = [work_mode |-> a.work_mode, tmod |-> a.tmod,
                  frame_format |-> a.frame_format,
                  data_length |-> a.data_length - 1]
    /\ spi_ctrlr0' = [aitm |-> a.aitm, addr_length |-> a.address_length \div 4,
                      inst_length |-> inst_l(a.instruction_length),
                      wait_cycles |-> a.wait_cycles]
    /\ endian' = a.endian
    /\ wr' = <<"imr", "dmatdlr", "dmardlr", "ser", "ssienr", "ctrlr0",
               "spi_ctrlr0", "endian">>

\* The register writes of configure, in the unsafe block.
ConfigureWrites(a) ==
    /\ imr' = 0
    /\ dmacr' = 0
    /\ dmatdlr' = 16
    /\ dmardlr' = 0
    /\ ser' = 0
    /\ ssienr' = 0 /\ txflr' = 0 /\ rxflr' = 0 /\ busy' = FALSE
    /\ ctrlr0' = [work_mode |-> a.work_mode, tmod |-> a.tmod,
                  frame_format |-> a.frame_format,
                  data_length |-> a.data_length - 1]
    /\ spi_ctrlr0' = [aitm |-> a.aitm, addr_length |-> a.address_length \div 4,
                      inst_length |-> inst_l(a.instruction_length),
                      wait_cycles |-> a.wait_cycles]
    /\ endian' = a.endian
    /\ wr' = <<"imr", "dmacr", "dmatdlr", "dmardlr", "ser", "ssienr", "ctrlr0",
               "spi_ctrlr0", "endian">>

\* configure with its argument checks made after the register writes.
configure_LateAssert(a) ==
    /\ Enter("configure", a)
    /\ hz' = 0 /\ rd' = {}
    /\ ConfigureWrites(a)
    /\ IF ConfigureAccepts(a)
       THEN pc' = "idle" /\ ret' = "Ok"
       ELSE pc' = "panicked" /\ ret' = "panic"
    /\ UNCHANGED <<slave_select, gate, baudr, ctrlr1, txoverrun, dma_dir,
                   dma_rem, locals>>

configure(a) ==
    /\ Enter("configure", a)
    /\ hz' = 0 /\ rd' = {}
    /\ IF ConfigureAccepts(a)
       THEN /\ pc' = "idle" /\ ret' = "Ok"
            /\ ConfigureWrites(a)
       ELSE /\ pc' = "panicked" /\ ret' = "panic"
            /\ wr' = <<>>
            /\ UNCHANGED <<imr, dmacr, dmatdlr, dmardlr, ser, ssienr, ctrlr0,
                           spi_ctrlr0, endian, txflr, rxflr, busy>>
    /\ UNCHANGED <<slave_select, gate, baudr, ctrlr1, txoverrun, dma_dir,
                   dma_rem, locals>>

(***************************************************************************)
(* The controller hardware.                                                *)
(***************************************************************************)
\* The shift register takes the next word out of the transmit FIFO.
HwShift ==
    /\ ssienr = 1 /\ ser # 0 /\ txflr > 0 /\ ~busy
    /\ txflr' = txflr - 1 /\ busy' = TRUE
    /\ UNCHANGED <<call, slave_select, gate, regs, rxflr, txoverrun,
                   dma_dir, dma_rem, locals>>

\* The frame has left the wire.
HwShiftDone ==
    /\ busy /\ busy' = FALSE
    /\ UNCHANGED <<call, slave_select, gate, regs, txflr, rxflr, txoverrun,
                   dma_dir, dma_rem, locals>>

\* A received word enters the receive FIFO.
HwReceive ==
    /\ ssienr = 1 /\ ser # 0 /\ rxflr < MaxRx
    /\ rxflr' = rxflr + 1
    /\ UNCHANGED <<call, slave_select, gate, regs, txflr, busy, txoverrun,
                   dma_dir, dma_rem, locals>>

\* The DMA channel moves one element from memory into the transmit FIFO.
HwDmaTx ==
    /\ dma_dir = "tx" /\ dma_rem > 0
    /\ ssienr = 1 /\ dmacr \in {2, 3} /\ txflr < FifoDepth
    /\ txflr' = txflr + 1 /\ dma_rem' = dma_rem - 1
    /\ UNCHANGED <<call, slave_select, gate, regs, rxflr, busy, txoverrun,
                   dma_dir, locals>>

\* The DMA channel moves one element from the receive FIFO into memory.
HwDmaRx ==
    /\ dma_dir = "rx" /\ dma_rem > 0
    /\ ssienr = 1 /\ dmacr \in {1, 3} /\ rxflr > 0
    /\ rxflr' = rxflr - 1 /\ dma_rem' = dma_rem - 1
    /\ UNCHANGED <<call, slave_select, gate, regs, txflr, busy, txoverrun,
                   dma_dir, locals>>

(***************************************************************************)
(* The specifications.                                                     *)
(***************************************************************************)
SlaveArgs == {None} \cup {Some(n) : n \in 0..MaxSlave}
Widths == {8, 16, 32}

\* Arguments of configure: one accepted set of values and its rejected neighbours.
ConfigArgs(dls, ils, als, wcs) ==
    [work_mode : {"MODE0"}, frame_format : {"STANDARD"}, data_length : dls,
     endian : {0}, instruction_length : ils, address_length : als,
     wait_cycles : wcs, aitm : {"STANDARD"}, tmod : {"TRANS"}]

TryWord ==
    \/ try_send_ser \/ try_send_en \/ try_send_wait \/ try_send_dr
    \/ try_send_poll \/ try_send_ser0 \/ try_send_en0
    \/ try_read_ctrlr1 \/ try_read_en \/ try_read_dr \/ try_read_ser
    \/ try_read_wait \/ try_read_pop \/ try_read_ser0 \/ try_read_en0

SliceSteps ==
    \/ slice_ser \/ slice_en \/ slice_refill \/ slice_push
    \/ slice_poll \/ slice_ser0 \/ slice_en0

DmaSteps ==
    \/ send_dma_dmacr \/ send_dma_en \/ send_dma_setup \/ send_dma_ser
    \/ send_dma_wait \/ send_dma_poll \/ send_dma_ser0 \/ send_dma_en0
    \/ recv_dma_ctrlr1 \/ recv_dma_en \/ recv_dma_dmacr \/ recv_dma_setup
    \/ recv_dma_dr \/ recv_dma_ser \/ recv_dma_wait \/ recv_dma_ser0
    \/ recv_dma_en0

Hardware == HwShift \/ HwShiftDone \/ HwReceive \/ HwDmaTx \/ HwDmaRx

\* The registers the call has written so far.
Written == {wr[i] : i \in DOMAIN wr}

Next ==
    \/ \E ss \in SlaveArgs : set_slave_select(ss)
    \/ \E a \in ConfigArgs({3, 8}, {0, 5}, {0}, {0}) : configure(a)
    \/ \E r \in {0, 10000000} : set_clk_rate(390000000, r)
    \/ \E w \in Widths : try_send(w)
    \/ \E w \in Widths : try_read(w)
    \/ slice_try_read
    \/ \E n \in 0..MaxTxLen : slice_try_send(n)
    \/ \E n \in 0..MaxTxLen : send_data_dma(n)
    \/ \E n \in 0..MaxTxLen : recv_data_dma(n)
    \/ TryWord \/ SliceSteps \/ DmaSteps \/ Hardware

Spec == Init /\ [][Next]_vars

\* Multi-word polled sends longer than the transmit FIFO is deep.
BurstLens == {1} \cup ((FifoDepth + 1)..MaxBurst)

NextFifo ==
    \/ \E ss \in {None, Some(1)} : set_slave_select(ss)
    \/ \E n \in BurstLens : slice_try_send(n)
    \/ SliceSteps
    \/ HwShift \/ HwShiftDone \/ HwReceive

SpecFifo == Init /\ [][NextFifo]_vars

\* set_clk_rate over small frequencies and the ones the clamps are about.
BaseFreqs == (0..MaxFreq) \cup {65534, 65535, 131070, 390000000}
ReqFreqs == (0..MaxFreq) \cup {65535, 10000000, 390000001}

NextClk == \E b \in BaseFreqs, r \in ReqFreqs : set_clk_rate(b, r)

SpecClk == Init /\ [][NextClk]_vars

\* configure over accepted arguments and their rejected neighbours, between
\* DMA sends that leave the registers away from their reset values.
NextCfg ==
    \/ \E a \in ConfigArgs({3, 4, 32, 33}, {0, 4, 8, 16, 5, 32}, {0, 4, 60, 64, 6},
                           {0, 31, 32}) : configure(a)
    \/ set_slave_select(Some(0))
    \/ send_data_dma(1)
    \/ send_dma_dmacr \/ send_dma_en \/ send_dma_setup \/ send_dma_ser
    \/ send_dma_wait \/ send_dma_poll \/ send_dma_ser0 \/ send_dma_en0
    \/ HwShift \/ HwShiftDone \/ HwReceive \/ HwDmaTx

SpecCfg == Init /\ [][NextCfg]_vars

\* set_clk_rate on SPI0 and on SPI1, interleaved at single register accesses.
NextGate ==
    \/ \E r \in GateRates : set_clk_rate_enter(r)
    \/ clk_en_peri_read \/ clk_en_peri_write \/ set_clk_rate_baudr
    \/ \E r \in GateRates : spi1_set_clk_rate_enter(r)
    \/ spi1_clk_en_peri_read \/ spi1_clk_en_peri_write
    \/ spi1_set_clk_rate_baudr

SpecGate == Init /\ [][NextGate]_vars

\* Every transfer, with the calling context and the hardware kept running:
\* a context inside a call takes its next step, the shift register takes and
\* finishes frames, received words arrive, the DMA channel moves its elements.
NextFair ==
    \/ \E ss \in {None, Some(1)} : set_slave_select(ss)
    \/ set_clk_rate(GateFreqIn, 10000000)
    \/ \E w \in Widths : try_send(w)
    \/ \E w \in Widths : try_read(w)
    \/ slice_try_read
    \/ \E n \in (0..MaxTxLen) \cup {FifoDepth + 1} : slice_try_send(n)
    \/ \E n \in 0..MaxTxLen : send_data_dma(n)
    \/ \E n \in 0..MaxTxLen : recv_data_dma(n)
    \/ TryWord \/ SliceSteps \/ DmaSteps \/ Hardware

Fairness ==
    /\ WF_vars(TryWord \/ SliceSteps \/ DmaSteps)
    /\ WF_vars(HwShift) /\ WF_vars(HwShiftDone) /\ WF_vars(HwReceive)
    /\ WF_vars(HwDmaTx) /\ WF_vars(HwDmaRx)

SpecFair == Init /\ [][NextFair]_vars /\ Fairness

(***************************************************************************)
(* Properties.                                                             *)
(***************************************************************************)
TransferOps == {"try_send", "try_read", "slice_try_send", "slice_try_read",
                "send_data_dma", "recv_data_dma"}
FifoSelectEnable == {"dr", "ser", "ssienr"}

\* C1 as stated: every transfer operation called with the stored chip-select
\* None returns NoSlaveSelect and writes none of DR, SER, SSIENR.
C1_AllReturnNoSlaveSelect ==
    (pc = "idle" /\ op \in TransferOps /\ slave_select = None)
        => (ret = "NoSlaveSelect" /\ Written \cap FifoSelectEnable = {})

\* C1 amended: with the stored chip-select None, word try_send, word try_read,
\* slice try_send, send_data_dma and recv_data_dma of a non-empty buffer return
\* NoSlaveSelect, slice try_read returns WillCauseMemoryError and recv_data_dma
\* of an empty buffer returns Ok; none of them writes DR, SER or SSIENR.
C1_NoSelectNoWrite ==
    (pc = "idle" /\ op \in TransferOps /\ slave_select = None)
        => /\ Written \cap FifoSelectEnable = {}
           /\ ret = (IF op = "slice_try_read" THEN "WillCauseMemoryError"
                     ELSE IF op = "recv_data_dma" /\ arg.len = 0 THEN "Ok"
                     ELSE "NoSlaveSelect")

C1_Witness ==
    /\ pc = "idle" /\ op = "send_data_dma" /\ arg.len > 0
    /\ slave_select = None /\ ret = "NoSlaveSelect" /\ dmacr = 0

ClockCheckedOps == {"try_send", "try_read", "slice_try_send", "send_data_dma",
                    "recv_data_dma"}

\* C2: a transfer operation called with a chip-select assigned while the
\* clock-gate enable bit is clear returns NoClockRateSpecified instead of
\* starting the transfer.
C2_ClockGateChecked ==
    (op \in ClockCheckedOps /\ slave_select # None /\ ~clk_en)
        => (pc = "idle" /\ ret = "NoClockRateSpecified" /\ wr = <<>>)

SelectLines == {Some(n) : n \in 0..3}
ReturningPaths == {"try_send", "try_read", "slice_try_send", "send_data_dma",
                   "recv_data_dma"}

\* C3: after set_slave_select(Some(n)), n in 0..3, and a transfer call that
\* has returned, on any path, SER reads 0 and SSIENR reads 0.
C3_DeassertedAfterTransfer ==
    (pc = "idle" /\ op \in ReturningPaths /\ slave_select \in SelectLines)
        => (ser = 0 /\ ssienr = 0)

C3_Witness ==
    /\ pc = "idle" /\ op = "send_data_dma" /\ ret = "Ok" /\ arg.len > 0
    /\ slave_select = Some(2)
    /\ wr = <<"dmacr", "ssienr", "dma_sel", "dmac", "ser", "ser", "ssienr">>

TransmitPaths == {"try_send", "slice_try_send", "send_data_dma"}

\* C4: in every transmit path SER is cleared, and the call returns, only
\* after a read of the status register with (SR & 0x05) = 0x04, the transmit
\* FIFO then being empty and the shift register at rest; in send_data_dma the
\* status register is read only once the DMA channel has completed.
C4_DeassertOnlyWhenIdle ==
    [][ /\ (op \in TransmitPaths /\ pc # "idle" /\ ser # 0 /\ ser' = 0)
            => (BitAnd(sr_val, 5) = 4 /\ "sr" \in rd /\ txflr = 0 /\ ~busy)
        /\ (op \in TransmitPaths /\ pc # "idle" /\ pc' = "idle")
            => (BitAnd(sr_val, 5) = 4 /\ ser = 0)
        /\ (op = "send_data_dma" /\ pc # "idle" /\ "sr" \in rd')
            => dma_rem = 0 ]_vars

C4_Witness ==
    /\ op = "send_data_dma" /\ arg.len = MaxTxLen /\ pc = "sdma_ser0"
    /\ ser # 0 /\ BitAnd(sr_val, 5) = 4 /\ dma_rem = 0

\* C5: during a multi-word polled send, of more than 32 words too, no word
\* is written to the data register while the transmit FIFO holds 32 entries:
\* the cached free count never exceeds 32 minus the fill level, which stays
\* within 0..32.
C5_NoPushWhenFull ==
    /\ ~txoverrun
    /\ txflr \in 0..32
    /\ (op = "slice_try_send" /\ pc = "slice_loop") => fifo_len <= 32 - txflr

C5_Witness ==
    /\ op = "slice_try_send" /\ arg.len > 32 /\ pc = "slice_loop"
    /\ txflr = 32 /\ fifo_len = 0 /\ rem >= 1

C6_Violates(a) ==
    \/ a.data_length < 4 \/ a.data_length > 32
    \/ a.wait_cycles >= 32
    \/ a.instruction_length \notin {0, 4, 8, 16}
    \/ a.address_length % 4 # 0 \/ a.address_length > 60

\* C6: a configure call whose arguments violate a precondition panics and
\* has written no register: the register state is as before the call.
C6_RejectedBeforeWrite ==
    [][ (pc = "idle" /\ op' = "configure" /\ C6_Violates(arg'))
            => (pc' = "panicked" /\ ret' = "panic" /\ wr' = <<>>
                /\ UNCHANGED <<regs, hw, slave_select, clk_en>>) ]_vars

C6_Witness ==
    /\ pc = "panicked" /\ op = "configure" /\ arg.address_length = 64
    /\ dmatdlr = 16 /\ ctrlr0.data_length = 31 /\ spi_ctrlr0.addr_length = 15

C7_Clamp(q) == IF q < 2 THEN 2 ELSE IF q > 65534 THEN 65534 ELSE q

\* C7 as stated: for every requested frequency, set_clk_rate writes the
\* divisor clamp(base / requested, 2, 65534) and returns base / divisor.
C7_EveryRequest ==
    op = "set_clk_rate"
        => /\ ret = "Ok"
           /\ baudr = C7_Clamp(arg.freq_in \div arg.spi_clk)
           /\ hz = arg.freq_in \div baudr

\* C7 amended: for every requested frequency of at least 1 Hz, set_clk_rate
\* writes d = clamp(base / requested, 2, 65534), d in [2, 65534], and returns
\* base / d by integer division (390000000 and 10000000 give 39 and 10000000).
C7_DivisorClamped ==
    (op = "set_clk_rate" /\ arg.spi_clk >= 1)
        => /\ ret = "Ok" /\ pc = "idle"
           /\ baudr = C7_Clamp(arg.freq_in \div arg.spi_clk)
           /\ baudr >= 2 /\ baudr <= 65534
           /\ hz = arg.freq_in \div baudr
           /\ (arg.freq_in = 390000000 /\ arg.spi_clk = 10000000)
                  => (baudr = 39 /\ hz = 10000000)

C7_Witness ==
    /\ op = "set_clk_rate" /\ ret = "Ok"
    /\ arg = [freq_in |-> 390000000, spi_clk |-> 10000000]
    /\ baudr = 39 /\ hz = 10000000 /\ clk_en

\* C8 as stated: the returned rate equals the requested rate r only when r
\* divides the base frequency b evenly.
C8_EqualOnlyIfDivides ==
    (op = "set_clk_rate" /\ ret = "Ok" /\ hz = arg.spi_clk)
        => arg.freq_in % arg.spi_clk = 0

\* C8 amended: when b / r lies in [2, 65534] the returned rate is never below
\* r, and it equals r whenever r divides b evenly; it can equal r also when
\* b mod r is not 0 (b = 7, r = 3 returns 3).
C8_EqualIfDivides ==
    (op = "set_clk_rate" /\ ret = "Ok"
     /\ arg.freq_in \div arg.spi_clk >= 2
     /\ arg.freq_in \div arg.spi_clk <= 65534)
        => /\ hz >= arg.spi_clk
           /\ (arg.freq_in % arg.spi_clk = 0) => hz = arg.spi_clk

C8_Witness ==
    /\ op = "set_clk_rate" /\ ret = "Ok"
    /\ arg = [freq_in |-> 7, spi_clk |-> 3] /\ baudr = 2 /\ hz = 3

\* C9 as stated: the stored chip-select is None again after every transfer
\* operation returns.
C9_NoneAfterTransfer ==
    (pc = "idle" /\ op \in TransferOps) => slave_select = None

\* C9 amended: the stored chip-select is None at construction and is changed
\* by set_slave_select alone; a transfer, completed or failed, leaves it as it
\* was, so a transfer made while it is Some(n) never returns NoSlaveSelect.
C9_SelectKeptAcrossTransfers ==
    /\ slave_select = None
    /\ [][op' # "set_slave_select" => slave_select' = slave_select]_vars
    /\ []((pc = "idle" /\ op \in TransferOps /\ slave_select # None)
            => ret # "NoSlaveSelect")

C9_Witness ==
    /\ pc = "idle" /\ op = "try_send" /\ ret = "Ok" /\ slave_select = Some(1)
    /\ wr = <<"ser", "ssienr", "dr", "ser", "ssienr">>

\* The step is a CPU write to the data register.
CpuWritesDr == Len(wr') = Len(wr) + 1 /\ wr'[Len(wr')] = "dr"
PolledOps == {"try_send", "try_read", "slice_try_send"}

\* C10 as stated: whenever the CPU writes a word to the data register, DMACR
\* is 0.
C10_NoCpuWriteUnderDma == [][CpuWritesDr => dmacr = 0]_vars

\* C10 amended: send_data_dma never has the CPU write the data register, and
\* no polled transfer changes DMACR; when the CPU writes the data register,
\* DMACR is 0 as long as no DMA transfer has been programmed, it is 3 inside
\* recv_data_dma (the dummy word), and in a polled transfer after a DMA
\* transfer it is whatever that transfer or a later configure left (2, 3, 0).
C10_DmacrAtCpuWrites ==
    [][ /\ CpuWritesDr => op # "send_data_dma"
        /\ (op \in PolledOps /\ pc # "idle") => dmacr' = dmacr
        /\ (CpuWritesDr /\ dma_dir = "none") => dmacr = 0
        /\ (CpuWritesDr /\ op = "recv_data_dma") => dmacr = 3
        /\ (CpuWritesDr /\ op \in PolledOps) => dmacr \in {0, 2, 3} ]_vars

C10_Witness ==
    /\ op = "slice_try_send" /\ pc = "slice_poll" /\ "dr" \in Written
    /\ dmacr = 2 /\ dma_dir = "tx"

C11_WordMax(w) == IF w = 8 THEN 255 ELSE 65535

\* C11: word try_read of width w returns min(v, 2^w - 1) of the raw word v
\* popped from the receive FIFO (for w = 32 that is v itself), and while it
\* waits for the received word SER equals 1 << n (2 for n = 1).
C11_SaturatingRead ==
    /\ (op = "try_read" /\ "dr" \in rd)
          => rx = (IF arg.w = 32 THEN dr_val
                   ELSE IF dr_val < C11_WordMax(arg.w) THEN dr_val
                   ELSE C11_WordMax(arg.w))
    /\ (op = "try_read" /\ pc \in {"read_wait", "read_pop"})
          => /\ ser = Shl1(slave_select[1])
             /\ slave_select = Some(1) => ser = 2

C11_Witness ==
    /\ op = "try_read" /\ pc = "idle" /\ ret = "Ok" /\ arg.w = 8
    /\ slave_select = Some(1) /\ dr_val = 256 /\ rx = 255

\* C12: slice try_read returns WillCauseMemoryError whatever the chip-select
\* and clock-gate state, and reads and writes no register.
C12_StreamedReadRefused ==
    [][ (pc = "idle" /\ op' = "slice_try_read")
            => (pc' = "idle" /\ ret' = "WillCauseMemoryError"
                /\ wr' = <<>> /\ rd' = {}
                /\ UNCHANGED <<regs, hw, slave_select, clk_en>>) ]_vars

C12_Witness ==
    /\ pc = "idle" /\ op = "slice_try_read" /\ ret = "WillCauseMemoryError"
    /\ slave_select = None /\ ~clk_en /\ dmacr = 2

\* C13: after configure with valid arguments has returned, from any prior
\* register state, SSIENR = 0, SER = 0, IMR = 0, DMACR = 0, the data length
\* field is word_width - 1, the address field address_length / 4 and the
\* instruction field 0/1/2/3 for 0/4/8/16; the registers it writes depend on
\* the arguments alone and it leaves the others unchanged, so a second call
\* with the same arguments changes no register.
C13_ConfigureState ==
    /\ []((pc = "idle" /\ op = "configure" /\ ret = "Ok")
            => /\ ssienr = 0 /\ ser = 0 /\ imr = 0 /\ dmacr = 0
               /\ dmatdlr = 16 /\ dmardlr = 0
               /\ ctrlr0 = [work_mode |-> arg.work_mode, tmod |-> arg.tmod,
                            frame_format |-> arg.frame_format,
                            data_length |-> arg.data_length - 1]
               /\ spi_ctrlr0.addr_length * 4 = arg.address_length
               /\ spi_ctrlr0.inst_length =
                      (CASE arg.instruction_length = 0 -> 0
                         [] arg.instruction_length = 4 -> 1
                         [] arg.instruction_length = 8 -> 2
                         [] arg.instruction_length = 16 -> 3)
               /\ spi_ctrlr0.wait_cycles = arg.wait_cycles
               /\ spi_ctrlr0.aitm = arg.aitm
               /\ endian = arg.endian)
    /\ [][(pc = "idle" /\ op' = "configure")
            => UNCHANGED <<baudr, ctrlr1, slave_select, clk_en>>]_vars
    /\ [][(pc = "idle" /\ op = "configure" /\ ret = "Ok"
           /\ op' = "configure" /\ arg' = arg) => UNCHANGED regs]_vars

C13_Witness ==
    /\ pc = "idle" /\ op = "configure" /\ ret = "Ok"
    /\ arg.instruction_length = 16 /\ spi_ctrlr0.inst_length = 3
    /\ arg.address_length = 60 /\ spi_ctrlr0.addr_length = 15
    /\ dma_dir = "tx" /\ dmacr = 0

\* C14 as stated: once set_clk_rate on SPI0 and set_clk_rate on SPI1 have both
\* returned, however their accesses to the shared clock-gate register were
\* interleaved, both clock-gate enable bits are set, as after either serial
\* order of the two calls.
C14_BothGatesEnabled ==
    (/\ pc = "idle" /\ op = "set_clk_rate" /\ ret = "Ok"
     /\ spi1.pc = "idle" /\ spi1.ret = "Ok")
        => (clk_en /\ spi1.clk_en)

\* C15 as stated: recv_data_dma of a non-empty buffer deasserts SER only after
\* the DMA channel has completed and after a read of SR that showed
\* (SR & 0x05) = 0x04.
C15_DeassertAfterDmaAndIdle ==
    [][ (op = "recv_data_dma" /\ ser # 0 /\ ser' = 0)
            => (dma_rem = 0 /\ "sr" \in rd
                /\ BitAnd(sr_val, SrIdleMask) = SrIdle) ]_vars

\* C16 as stated: a word try_read that returns Ok has written, in this order,
\* SER (1 << n), SSIENR (1), CTRLR1 (0), the dummy word to DR, then SER (0)
\* and SSIENR (0); chip-select is asserted when the dummy word is pushed.
C16_SelectBeforeDummy ==
    /\ [](op = "try_read" /\ pc = "idle" /\ ret = "Ok"
            => wr = <<"ser", "ssienr", "ctrlr1", "dr", "ser", "ssienr">>)
    /\ [][(op = "try_read" /\ CpuWritesDr) => ser = Shl1(slave_select[1])]_vars

C16_ReadWrites == <<"ctrlr1", "ssienr", "dr", "ser", "ser", "ssienr">>

\* C16 amended: in word try_read the order is CTRLR1 := 0, SSIENR := 1, the
\* dummy word 0xFFFFFFFF pushed, SER := 1 << n, wait until the receive level
\* is at least 1, pop, SER := 0, SSIENR := 0; the dummy word is pushed while
\* chip-select is still deasserted.
C16_DummyBeforeSelect ==
    /\ [](op = "try_read" /\ ret \in {"none", "Ok"}
            => /\ Len(wr) <= Len(C16_ReadWrites)
               /\ wr = SubSeq(C16_ReadWrites, 1, Len(wr))
               /\ (pc = "idle" /\ ret = "Ok") => wr = C16_ReadWrites
               /\ Len(wr) = 1 => ctrlr1 = 0
               /\ Len(wr) \in 2..5 => ssienr = 1
               /\ Len(wr) = 4 => ser = Shl1(slave_select[1])
               /\ Len(wr) \in {3, 5, 6} => ser = 0
               /\ Len(wr) = 6 => ssienr = 0
               /\ "dr" \in rd => Len(wr) >= 4)
    /\ [][(op = "try_read" /\ CpuWritesDr)
            => (ser = 0 /\ ssienr = 1 /\ ctrlr1 = 0)]_vars
    /\ [][(op = "try_read" /\ "dr" \notin rd /\ "dr" \in rd')
            => (rxflr >= 1 /\ Len(wr) = 4 /\ "rxflr" \in rd)]_vars

C16_Witness ==
    /\ op = "try_read" /\ pc = "idle" /\ ret = "Ok" /\ "dr" \in rd
    /\ wr = C16_ReadWrites /\ slave_select = Some(2)

\* C17: set_slave_select changes the stored chip-select only and leaves every
\* hardware register unchanged; SER is non-zero only inside a transfer call,
\* after that call has written it, so between two driver calls SER is 0 (SER
\* is 0 at the start).
C17_SelectStoredOnly ==
    /\ [][ (pc = "idle" /\ op' = "set_slave_select")
              => (/\ slave_select' = arg'.ss /\ pc' = "idle"
                  /\ wr' = <<>> /\ rd' = {}
                  /\ UNCHANGED <<regs, hw, clk_en>>) ]_vars
    /\ [](ser # 0 => (op \in TransferOps /\ pc # "idle" /\ "ser" \in Written))
    /\ [](pc = "idle" => ser = 0)

C17_Witness ==
    /\ pc = "idle" /\ op = "set_slave_select" /\ slave_select = Some(3)
    /\ ser = 0 /\ dmacr = 3 /\ baudr = 39

ConfigureOnly == <<ctrlr0, spi_ctrlr0, endian>>

\* C18: no transfer and no set_slave_select changes CTRLR0, SPI_CTRLR0, ENDIAN
\* or the baud divisor: the first three change only in configure and the
\* divisor only in set_clk_rate.
C18_FrameAndDivisorKept ==
    /\ [][ConfigureOnly' # ConfigureOnly => (pc = "idle" /\ op' = "configure")]_vars
    /\ [][baudr' # baudr => (pc = "idle" /\ op' = "set_clk_rate")]_vars
    /\ [][(op' \in TransferOps \cup {"set_slave_select"})
            => UNCHANGED <<ConfigureOnly, baudr>>]_vars

C18_Witness ==
    /\ pc = "idle" /\ op = "try_send" /\ ret = "Ok" /\ arg.w = 16
    /\ ctrlr0.data_length = 7 /\ baudr = 39

InCall == pc \notin {"idle", "panicked"} /\ op \in TransferOps

\* C19 as stated: with chip-select assigned and the clock gate enabled, under
\* fairness of the hardware, every transfer call eventually returns, and the
\* value it returns is Ok.
C19_EveryTransferReturnsOk ==
    /\ (InCall /\ clk_en) ~> (pc = "idle" /\ ret = "Ok")
    /\ []((pc = "idle" /\ op \in TransferOps /\ slave_select # None /\ clk_en)
            => ret = "Ok")

\* C19 amended: with chip-select assigned and the clock gate enabled, under
\* fairness of the hardware, every transfer call other than slice try_read
\* eventually returns Ok, and slice try_read returns WillCauseMemoryError; a
\* call leaves a wait only when the hardware condition it polls holds.
C19_TransfersTerminate ==
    /\ (InCall /\ clk_en) ~> (pc = "idle" /\ ret = "Ok")
    /\ []((pc = "idle" /\ op \in TransferOps /\ slave_select # None /\ clk_en)
            => ret = (IF op = "slice_try_read" THEN "WillCauseMemoryError"
                      ELSE "Ok"))
    /\ [][(pc = "send_wait" /\ pc' # pc) => txflr < FifoDepth]_vars
    /\ [][(pc = "slice_loop" /\ fifo_len = 0 /\ fifo_len' # 0) => txflr < FifoDepth]_vars
    /\ [][(pc \in {"send_poll", "slice_poll", "sdma_poll"} /\ pc' # pc)
            => (txflr = 0 /\ ~busy)]_vars
    /\ [][(pc \in {"sdma_wait", "rdma_wait"} /\ pc' # pc) => dma_rem = 0]_vars
    /\ [][(pc = "read_wait" /\ pc' # pc) => rxflr >= 1]_vars

C19_Witness ==
    /\ pc = "idle" /\ op = "recv_data_dma" /\ ret = "Ok" /\ arg.len = MaxTxLen
    /\ slave_select = Some(1) /\ clk_en

\* C20 as stated: in every reachable state the stored chip-select is None or
\* Some(n) with 0 <= n <= 3, and the select register holds 0 or one of
\* 1, 2, 4, 8.
C20_SelectInRange ==
    /\ (slave_select = None \/ slave_select[1] \in 0..3)
    /\ ser \in {0, 1, 2, 4, 8}
====
